---- MODULE Spec2Model ----
(***************************************************************************)
(* A model of SimSwap.py: the loader (read_csv), the graph builder         *)
(* (build_nx), the renderer (build_bokeh) and the module-level try/except  *)
(* that runs them, as one sequential state machine.                        *)
(*                                                                         *)
(* Library calls are modelled by what the libraries the script was written *)
(* against do (pandas 0.23, networkx 2.1, bokeh 0.13, August 2018):        *)
(*   pd.read_csv            FileNotFoundError for a missing path,          *)
(*                          ValueError for an object that is neither a     *)
(*                          path nor file-like, the table otherwise;       *)
(*   nx.from_pandas_edgelist  create_using=None builds an nx.Graph (simple,*)
(*                          undirected); df.columns.get_loc raises KeyError*)
(*                          for an absent column name;                     *)
(*   linear_cmap            bokeh's LinearColorMapper.                     *)
(***************************************************************************)
EXTENDS Integers, Sequences, FiniteSets, TLC

\* ------------------------------------------------------------ bounds
MaxRows == 2
MaxDate == 3
ResetDay == 2

\* ------------------------------------------------------------ inputs
\* Account identifiers as the data frame holds them, written as str(i).
Ids == {"255700000001", "255700000002", "1001"}

\* Calendar days of the first parsed date column, and the day the compared
\* date column holds: the first column falls before, on and after it.
Dates == 1..MaxDate

ComparedDates == {ResetDay}

\* The constructor argument: absent (SimSwap() with no argument), a path
\* string, an object that is no path (an int, None, a list), or an open
\* file-like object.
ArgKinds == {"missing", "str", "int", "filelike"}

\* The column names build_nx refers to, in the order get_loc looks them up:
\* source, target, then edge_attr.
Lookups ==
  << "PIN RESET MSISDN", "CREDIT PARTY",
     "PIN RESET MSISDN", "DEBIT PARTY", "CREDIT PARTY",
     "CREDIT PARTY SHORTCODE/MSISDN", "TIME",
     "TRANSACTION TIME", "TRANSACTION ID",
     "TRANSACTION AMOUNT", "TIME" >>

\* The names that have to come from the file's header (TIME is added by
\* read_csv).
Named == {Lookups[k] : k \in DOMAIN Lookups} \ {"TIME"}

\* One data row of the file: the cells that vary.  The remaining cells of
\* the row are filled in by RowOf.
RowInputs ==
  [c0 : Dates, PIN_RESET_MSISDN : Ids, c2 : ComparedDates, CREDIT_PARTY : Ids]

Tables == UNION {[1..n -> RowInputs] : n \in 0..MaxRows}

ShortTables == UNION {[1..n -> RowInputs] : n \in 0..1}

\* The runs explored: every table behind a good path and header; and short
\* tables behind every other argument, a missing file, or a header that
\* lacks some of the names.
Inputs ==
       [arg : {"str"}, exists : {TRUE}, header : {Named}, rows : Tables]
  \cup [arg : ArgKinds, exists : BOOLEAN, header : {Named}, rows : ShortTables]
  \cup [arg : {"str"}, exists : {TRUE}, header : SUBSET Named, rows : ShortTables]

\* ------------------------------------------------------------ state
VARIABLES
  file_name,        \* the constructor's argument (its kind)
  fs,               \* the input file: exists, header, rows
  pc,               \* where the run is
  exc,              \* the exception being propagated, or NoExc
  data,             \* read_csv's data frame: a sequence of rows
  nx_graph,         \* build_nx's graph
  edge_data,        \* the edge data source's added columns
  node_colors,      \* the node data source's node_colors column
  html,             \* TZ_SimSwap_Network.html: Absent or the saved plot
  writes,           \* how many times the output file was written
  stdout,           \* what was printed
  events            \* the stages that returned and the errors raised, in order

vars == << file_name, fs, pc, exc, data, nx_graph, edge_data, node_colors,
           html, writes, stdout, events >>

NoExc == [type |-> "none", key |-> ""]
Absent == [saved |-> FALSE]
EmptyGraph == [node |-> << >>, adj |-> [i \in Ids |-> << >>], attr |-> [p \in {} |-> 0]]
NoEdgeData == [rmsisdn |-> << >>, rname |-> << >>, crmsisdn |-> << >>,
               crname |-> << >>, batime |-> << >>]

\* ------------------------------------------------------------ read_csv
\* A comparison that also counts equal dates as earlier.
TimeOfInclusive(c0, c2) == IF c0 <= c2 THEN 0 ELSE 1

\* data.iat[i, 0] < data.iat[i, 2]
TimeOf(c0, c2) == IF c0 < c2 THEN 0 ELSE 1

\* Row i of the data frame: the nine selected columns plus TIME.
RowOf(r, i) ==
  [ c0 |-> r.c0,
    PIN_RESET_MSISDN |-> r.PIN_RESET_MSISDN,
    c2 |-> r.c2,
    DEBIT_PARTY |-> << "name of", r.PIN_RESET_MSISDN >>,
    CREDIT_PARTY |-> r.CREDIT_PARTY,
    CREDIT_PARTY_SHORTCODE_MSISDN |-> << "shortcode of", r.CREDIT_PARTY >>,
    TRANSACTION_TIME |-> r.c2,
    TRANSACTION_ID |-> i,
    TRANSACTION_AMOUNT |-> 100 * i,
    TIME |-> TimeOf(r.c0, r.c2) ]

DataFrame(rows) == [i \in 1..Len(rows) |-> RowOf(rows[i], i)]

\* '{0}'.format(file_error): the text of pandas' FileNotFoundError.
FileErrorText == "File does not exist"

\* What pd.read_csv does with the argument.
ReadOutcome(arg, exists) ==
  IF arg = "filelike" THEN "ok"
  ELSE IF arg # "str" THEN "ValueError"
  ELSE IF ~exists THEN "FileNotFoundError"
  ELSE "ok"

\* ------------------------------------------------------------ build_nx
InSeq(x, s) == \E k \in DOMAIN s : s[k] = x

AppendNew(s, x) == IF InSeq(x, s) THEN s ELSE Append(s, x)

\* The edge attributes taken from a row (edge_attr; TIME is named twice).
EdgeAttr(row) ==
  [ PIN_RESET_MSISDN |-> row.PIN_RESET_MSISDN,
    DEBIT_PARTY |-> row.DEBIT_PARTY,
    CREDIT_PARTY |-> row.CREDIT_PARTY,
    CREDIT_PARTY_SHORTCODE_MSISDN |-> row.CREDIT_PARTY_SHORTCODE_MSISDN,
    TIME |-> row.TIME,
    TRANSACTION_TIME |-> row.TRANSACTION_TIME,
    TRANSACTION_ID |-> row.TRANSACTION_ID,
    TRANSACTION_AMOUNT |-> row.TRANSACTION_AMOUNT ]

\* An add_edge that registers the source endpoint only.
AddEdgeSourceOnly(g, s, t, d) ==
  LET adj1 == [g.adj EXCEPT ![s] = AppendNew(@, t)]
  IN [ node |-> AppendNew(g.node, s),
       adj  |-> [adj1 EXCEPT ![t] = AppendNew(@, s)],
       attr |-> [p \in DOMAIN g.attr \cup {{s, t}} |->
                   IF p = {s, t} THEN d ELSE g.attr[p]] ]

\* nx.Graph.add_edge(s, t) followed by g[s][t].update(attributes): both
\* endpoints become nodes, each becomes the other's neighbour, and the one
\* attribute dict of the unordered pair is overwritten.
AddEdge(g, s, t, d) ==
  LET adj1 == [g.adj EXCEPT ![s] = AppendNew(@, t)]
  IN [ node |-> AppendNew(AppendNew(g.node, s), t),
       adj  |-> [adj1 EXCEPT ![t] = AppendNew(@, s)],
       attr |-> [p \in DOMAIN g.attr \cup {{s, t}} |->
                   IF p = {s, t} THEN d ELSE g.attr[p]] ]

RECURSIVE FromPandasEdgelist(_, _)
\* The graph after the first n rows of df.
FromPandasEdgelist(df, n) ==
  IF n = 0 THEN EmptyGraph
  ELSE AddEdge(FromPandasEdgelist(df, n - 1),
               df[n].PIN_RESET_MSISDN, df[n].CREDIT_PARTY, EdgeAttr(df[n]))

\* A lookup that resolves source and target only and takes the edge
\* attributes on trust.
FirstMissingEndpoints(columns, k) ==
  IF Lookups[1] \notin columns THEN Lookups[1]
  ELSE IF Lookups[2] \notin columns THEN Lookups[2]
  ELSE ""

\* The first name get_loc does not find, or "" when all are found.
RECURSIVE FirstMissing(_, _)
FirstMissing(columns, k) ==
  IF k > Len(Lookups) THEN ""
  ELSE IF Lookups[k] \notin columns THEN Lookups[k]
  ELSE FirstMissing(columns, k + 1)

\* nx_graph.edges(data=True): for each node in insertion order, its not yet
\* visited neighbours in insertion order.
EdgesFrom(g, k) ==
  LET n    == g.node[k]
      seen == {g.node[j] : j \in 1..(k - 1)}
      nbrs == SelectSeq(g.adj[n], LAMBDA nb : nb \notin seen)
  IN [e \in 1..Len(nbrs) |-> [u |-> n, v |-> nbrs[e], d |-> g.attr[{n, nbrs[e]}]]]

RECURSIVE EdgesUpTo(_, _)
EdgesUpTo(g, k) == IF k = 0 THEN << >> ELSE EdgesUpTo(g, k - 1) \o EdgesFrom(g, k)

Edges(g) == EdgesUpTo(g, Len(g.node))

\* ------------------------------------------------------------ build_bokeh
\* len(str(i))
StrLen(i) == Len(i)

LenLimit == 12

NodeColor(i, r_msisdn) ==
  IF StrLen(i) < LenLimit THEN 0
  ELSE IF InSeq(i, r_msisdn) THEN 1
  ELSE 2

\* Edge lists whose TIME column runs against the edge order.
EdgeListsReversedTime(g) ==
  LET atts == Edges(g)
      n    == Len(atts)
  IN [ rmsisdn  |-> [k \in 1..n |-> atts[k].d.PIN_RESET_MSISDN],
       rname    |-> [k \in 1..n |-> atts[k].d.DEBIT_PARTY],
       crmsisdn |-> [k \in 1..n |-> atts[k].d.CREDIT_PARTY],
       crname   |-> [k \in 1..n |-> atts[k].d.CREDIT_PARTY_SHORTCODE_MSISDN],
       batime   |-> [k \in 1..n |-> atts[n + 1 - k].d.TIME] ]

EdgeLists(g) ==
  LET atts == Edges(g)
  IN [ rmsisdn  |-> [k \in 1..Len(atts) |-> atts[k].d.PIN_RESET_MSISDN],
       rname    |-> [k \in 1..Len(atts) |-> atts[k].d.DEBIT_PARTY],
       crmsisdn |-> [k \in 1..Len(atts) |-> atts[k].d.CREDIT_PARTY],
       crname   |-> [k \in 1..Len(atts) |-> atts[k].d.CREDIT_PARTY_SHORTCODE_MSISDN],
       batime   |-> [k \in 1..Len(atts) |-> atts[k].d.TIME] ]

NodeColorList(g, r_msisdn) ==
  [k \in 1..Len(g.node) |-> NodeColor(g.node[k], r_msisdn)]

\* floor(a / b) for b # 0
FloorDiv(a, b) == IF b > 0 THEN a \div b ELSE (-a) \div (-b)

\* bokeh's LinearColorMapper: the colour of value d under a palette
\* stretched from low to high.
LinearCmap(d, palette, low, high) ==
  LET n       == Len(palette)
      max_key == n - 1
      key     == FloorDiv((d - low) * n, high - low)
  IN IF d = high THEN palette[max_key + 1]
     ELSE IF key < 0 THEN palette[1]
     ELSE IF key > max_key THEN palette[max_key + 1]
     ELSE palette[key + 1]

node_target_palette == << "#808080", "#B22222", "#FFA07A" >>

target_palette == << "mediumseagreen", "firebrick" >>

NodeLow == 0
NodeHigh == 2
EdgeLow == 1
EdgeHigh == 0

node_colors_cmap(d) == LinearCmap(d, node_target_palette, NodeLow, NodeHigh)

\* The edge colour mapping with low and high in their natural order.
edge_colors_natural(d) == LinearCmap(d, target_palette, EdgeHigh, EdgeLow)

edge_colors(d) == LinearCmap(d, target_palette, EdgeLow, EdgeHigh)

\* The saved document: the graph drawn, each node and edge with its colour
\* and each edge with its tooltip row.
Plot(g, ed, nc) ==
  [ saved |-> TRUE,
    nodes |-> g.node,
    edges |-> [k \in 1..Len(Edges(g)) |-> << Edges(g)[k].u, Edges(g)[k].v >>],
    node_fill |-> [k \in 1..Len(nc) |-> node_colors_cmap(nc[k])],
    edge_line |-> [k \in 1..Len(ed.batime) |-> edge_colors(ed.batime[k])],
    hover |-> [k \in 1..Len(ed.rmsisdn) |->
                 << ed.rmsisdn[k], ed.rname[k], ed.crmsisdn[k], ed.crname[k] >>] ]

\* ------------------------------------------------------------ the run
Init ==
  /\ \E in \in Inputs :
       /\ file_name = in.arg
       /\ fs = [exists |-> in.exists, header |-> in.header, rows |-> in.rows]
  /\ pc = "start"
  /\ exc = NoExc
  /\ data = << >>
  /\ nx_graph = EmptyGraph
  /\ edge_data = NoEdgeData
  /\ node_colors = << >>
  /\ html = Absent
  /\ writes = 0
  /\ stdout = << >>
  /\ events = << >>

\* s = SimSwap(path): without an argument the call raises TypeError.
Construct ==
  /\ pc = "start"
  /\ IF file_name = "missing"
       THEN /\ exc' = [type |-> "TypeError", key |-> ""]
            /\ pc' = "top_except"
       ELSE /\ exc' = exc
            /\ pc' = "read_csv"
  /\ events' = IF file_name = "missing" THEN Append(events, "raise") ELSE events
  /\ UNCHANGED << file_name, fs, data, nx_graph, edge_data, node_colors, html,
                  writes, stdout >>

\* The try body of read_csv.
ReadCsv ==
  /\ pc = "read_csv"
  /\ LET out == ReadOutcome(file_name, fs.exists)
     IN IF out = "ok"
          THEN /\ data' = DataFrame(fs.rows)
               /\ exc' = exc
               /\ pc' = "build_nx"
          ELSE /\ data' = data
               /\ exc' = [type |-> out, key |-> ""]
               /\ pc' = "read_csv_except"
  /\ events' = Append(events, IF ReadOutcome(file_name, fs.exists) = "ok"
                               THEN "read_csv" ELSE "raise")
  /\ UNCHANGED << file_name, fs, nx_graph, edge_data, node_colors, html, writes,
                  stdout >>

\* A handler in read_csv that prints and does not re-raise: read_csv
\* returns and the run goes on with an empty table.
ReadCsvExceptSwallowed ==
  /\ pc = "read_csv_except"
  /\ stdout' = IF exc.type = "FileNotFoundError"
                 THEN Append(stdout, "CSV file not found.")
                 ELSE stdout
  /\ exc' = NoExc
  /\ pc' = "build_nx"
  /\ UNCHANGED << file_name, fs, data, nx_graph, edge_data, node_colors,
                  html, writes, events >>

\* read_csv's except FileNotFoundError: print and re-raise; any other
\* exception passes through.
ReadCsvExcept ==
  /\ pc = "read_csv_except"
  /\ stdout' = IF exc.type = "FileNotFoundError"
                 THEN Append(stdout, "CSV file not found.")
                 ELSE stdout
  /\ pc' = "build_nx_except"
  /\ UNCHANGED << file_name, fs, exc, data, nx_graph, edge_data, node_colors,
                  html, writes, events >>

\* The try body of build_nx after read_csv returned.
BuildNx ==
  /\ pc = "build_nx"
  /\ LET miss == FirstMissing(fs.header \cup {"TIME"}, 1)
     IN IF miss = ""
          THEN /\ nx_graph' = FromPandasEdgelist(data, Len(data))
               /\ exc' = exc
               /\ pc' = "build_bokeh"
          ELSE /\ nx_graph' = nx_graph
               /\ exc' = [type |-> "KeyError", key |-> miss]
               /\ pc' = "build_nx_except"
  /\ events' = Append(events, IF FirstMissing(fs.header \cup {"TIME"}, 1) = ""
                               THEN "build_nx" ELSE "raise")
  /\ UNCHANGED << file_name, fs, data, edge_data, node_colors, html, writes,
                  stdout >>

\* A handler in build_nx that prints and does not re-raise: build_nx
\* returns and build_bokeh goes on.
BuildNxExceptSwallowed ==
  /\ pc = "build_nx_except"
  /\ stdout' = IF exc.type = "KeyError"
                 THEN Append(stdout, "Incorrect CSV file heading.")
                 ELSE stdout
  /\ pc' = "build_bokeh"
  /\ UNCHANGED << file_name, fs, exc, data, nx_graph, edge_data, node_colors,
                  html, writes, events >>

\* build_nx's except KeyError: print and re-raise; any other exception
\* passes through, and build_bokeh has no handler at all.
BuildNxExcept ==
  /\ pc = "build_nx_except"
  /\ stdout' = IF exc.type = "KeyError"
                 THEN Append(stdout, "Incorrect CSV file heading.")
                 ELSE stdout
  /\ pc' = "top_except"
  /\ UNCHANGED << file_name, fs, exc, data, nx_graph, edge_data, node_colors,
                  html, writes, events >>

\* build_bokeh from the edge attributes to the data sources.
BuildBokeh ==
  /\ pc = "build_bokeh"
  /\ edge_data' = EdgeLists(nx_graph)
  /\ node_colors' = NodeColorList(nx_graph, EdgeLists(nx_graph).rmsisdn)
  /\ pc' = "save"
  /\ UNCHANGED << file_name, fs, exc, data, nx_graph, html, writes, stdout, events >>

\* output_file('TZ_SimSwap_Network.html'); save(plot)
Save ==
  /\ pc = "save"
  /\ html' = Plot(nx_graph, edge_data, node_colors)
  /\ writes' = writes + 1
  /\ pc' = "done"
  /\ events' = Append(events, "save")
  /\ UNCHANGED << file_name, fs, exc, data, nx_graph, edge_data, node_colors,
                  stdout >>

\* except TypeError: print the usage message and re-raise.
TopTypeError ==
  /\ pc = "top_except"
  /\ exc.type = "TypeError"
  /\ stdout' = Append(stdout, "SimSwap() must take csv file path as a string")
  /\ pc' = "crashed"
  /\ UNCHANGED << file_name, fs, exc, data, nx_graph, edge_data, node_colors,
                  html, writes, events >>

\* except FileNotFoundError: print the error.
TopFileNotFound ==
  /\ pc = "top_except"
  /\ exc.type = "FileNotFoundError"
  /\ stdout' = Append(stdout, FileErrorText)
  /\ pc' = "handled"
  /\ UNCHANGED << file_name, fs, exc, data, nx_graph, edge_data, node_colors,
                  html, writes, events >>

\* except KeyError: print 'Key: ' and the key.
TopKeyError ==
  /\ pc = "top_except"
  /\ exc.type = "KeyError"
  /\ stdout' = Append(stdout, "Key: '" \o exc.key \o "'")
  /\ pc' = "handled"
  /\ UNCHANGED << file_name, fs, exc, data, nx_graph, edge_data, node_colors,
                  html, writes, events >>

\* No except clause matches: the exception leaves the module.
TopUncaught ==
  /\ pc = "top_except"
  /\ exc.type \notin {"TypeError", "FileNotFoundError", "KeyError"}
  /\ pc' = "crashed"
  /\ UNCHANGED << file_name, fs, exc, data, nx_graph, edge_data, node_colors,
                  html, writes, stdout, events >>

Next ==
  \/ Construct
  \/ ReadCsv
  \/ ReadCsvExcept
  \/ BuildNx
  \/ BuildNxExcept
  \/ BuildBokeh
  \/ Save
  \/ TopTypeError
  \/ TopFileNotFound
  \/ TopKeyError
  \/ TopUncaught

Spec == Init /\ [][Next]_vars

\* ------------------------------------------------------------ properties
Terminal == {"done", "handled", "crashed"}

\* build_nx has returned its graph.
Built == pc \in {"build_bokeh", "save", "done"}

\* build_bokeh has filled the data sources.
Formatted == pc \in {"save", "done"}

\* The unordered account pairs of the rows.
Pairs == {{data[i].PIN_RESET_MSISDN, data[i].CREDIT_PARTY} : i \in DOMAIN data}

\* The reset-account-ids of the rows.
ResetIds == {data[i].PIN_RESET_MSISDN : i \in DOMAIN data}

\* The credit-party-ids of the rows.
CreditIds == {data[i].CREDIT_PARTY : i \in DOMAIN data}

\* C1 (as stated): the graph build_nx returns has as many edges as the
\* table has rows; records between the same pair of accounts stay parallel
\* edges.
C1_OneEdgePerRow ==
  Built => Len(Edges(nx_graph)) = Len(data)

\* C2 (as stated): TIME is 0 exactly when the first date is earlier than or
\* equal to the compared date, and 1 otherwise.
C2_ZeroWhenEarlierOrEqual ==
  pc # "start" /\ pc # "read_csv" /\ ReadOutcome(file_name, fs.exists) = "ok" =>
    \A i \in DOMAIN data :
      data[i].TIME = IF fs.rows[i].c0 <= fs.rows[i].c2 THEN 0 ELSE 1

\* C2 (amended): read_csv gives every row of the file one row of the table,
\* whose TIME is 0 exactly when the first date is strictly earlier than the
\* compared date and 1 otherwise, so 1 for equal dates; it is decided by the
\* row's own two dates.
C2_ZeroWhenStrictlyEarlier ==
  pc # "start" /\ pc # "read_csv" /\ ReadOutcome(file_name, fs.exists) = "ok" =>
    /\ Len(data) = Len(fs.rows)
    /\ \A i \in DOMAIN data :
         /\ data[i].TIME \in {0, 1}
         /\ data[i].TIME = 0 <=> fs.rows[i].c0 < fs.rows[i].c2
         /\ fs.rows[i].c0 = fs.rows[i].c2 => data[i].TIME = 1

\* C2 witness: a loaded row with equal dates, marked 1, beside a row whose
\* first date is earlier, marked 0.
C2_Witness ==
  /\ pc = "build_nx"
  /\ \E i, j \in DOMAIN data :
       /\ fs.rows[i].c0 = fs.rows[i].c2 /\ data[i].TIME = 1
       /\ fs.rows[j].c0 < fs.rows[j].c2 /\ data[j].TIME = 0

\* C3 (as stated): a node is category 0 when its identifier is shorter than
\* 12 characters, else 1 when it is the reset-account-id of some row, else 2.
C3_CategoryFromResetIds ==
  Formatted =>
    /\ Len(node_colors) = Len(nx_graph.node)
    /\ \A k \in DOMAIN node_colors :
         node_colors[k] =
           IF Len(nx_graph.node[k]) < 12 THEN 0
           ELSE IF nx_graph.node[k] \in ResetIds THEN 1
           ELSE 2

\* C4: the nodes of the graph are exactly the reset-account-ids and the
\* credit-party-ids of the rows, each once, and both endpoints of every
\* edge are nodes.
C4_NodesAreTheAccounts ==
  Built =>
    LET nodes == {nx_graph.node[k] : k \in DOMAIN nx_graph.node}
        E     == Edges(nx_graph)
    IN /\ nodes = ResetIds \cup CreditIds
       /\ Cardinality(nodes) = Len(nx_graph.node)
       /\ \A e \in DOMAIN E : E[e].u \in nodes /\ E[e].v \in nodes
       /\ {{E[e].u, E[e].v} : e \in DOMAIN E} = Pairs

\* C4 witness: a built graph of two rows with three accounts, one of them a
\* credit party only.
C4_Witness ==
  /\ pc = "done"
  /\ Len(data) = 2
  /\ Len(nx_graph.node) = 3
  /\ CreditIds \ ResetIds # {}

\* C5: the output file is written at most once, and only after read_csv and
\* then build_nx have returned with nothing raised; once anything is raised
\* the file is not written.
C5_WriteOnlyAfterAllStages ==
  /\ writes \in {0, 1}
  /\ html.saved <=> writes = 1
  /\ writes = 1 => events = << "read_csv", "build_nx", "save" >> /\ exc = NoExc
  /\ InSeq("raise", events) => writes = 0 /\ html = Absent
  /\ pc \in Terminal /\ pc # "done" => writes = 0 /\ html = Absent

\* C5 witness: a run that wrote the file once, from a table of two rows.
C5_Witness ==
  /\ pc = "done"
  /\ writes = 1
  /\ html.saved
  /\ Len(data) = 2

\* C6: with no file at the path, read_csv prints its diagnostic and raises
\* FileNotFoundError, neither build_nx nor build_bokeh takes it, the top
\* level prints the error, and the output file is never written.
C6_MissingFile ==
  file_name = "str" /\ ~fs.exists =>
    /\ html = Absent /\ writes = 0
    /\ pc \notin {"build_nx", "build_bokeh", "save", "done", "crashed"}
    /\ pc \in {"read_csv_except", "build_nx_except", "top_except", "handled"}
         => exc.type = "FileNotFoundError"
    /\ pc \in {"build_nx_except", "top_except"}
         => stdout = << "CSV file not found." >>
    /\ pc = "handled"
         => stdout = << "CSV file not found.", FileErrorText >>

\* C6 witness: the run on a missing file, ended at the top-level handler.
C6_Witness ==
  /\ file_name = "str" /\ ~fs.exists
  /\ pc = "handled"
  /\ exc.type = "FileNotFoundError"
  /\ Len(stdout) = 2

C8_UsageOnNonString ==
  file_name \in {"int", "filelike"} /\ pc \in Terminal =>
    /\ InSeq("SimSwap() must take csv file path as a string", stdout)
    /\ html = Absent

\* C9 (as stated): an edge is drawn firebrick when its TIME is 1 and
\* mediumseagreen when it is 0.
C9_FirebrickForOne ==
  html.saved =>
    LET E == Edges(nx_graph)
    IN \A k \in DOMAIN E :
         html.edge_line[k] = IF E[k].d.TIME = 1 THEN "firebrick" ELSE "mediumseagreen"

\* C9 (amended): an edge is drawn mediumseagreen when its TIME is 1 and
\* firebrick when it is 0.
C9_FirebrickForZero ==
  html.saved =>
    LET E == Edges(nx_graph)
    IN /\ Len(html.edge_line) = Len(E)
       /\ \A k \in DOMAIN E :
            /\ E[k].d.TIME = 1 => html.edge_line[k] = "mediumseagreen"
            /\ E[k].d.TIME = 0 => html.edge_line[k] = "firebrick"

\* C9 witness: a saved plot with an edge of each TIME value, each drawn.
C9_Witness ==
  /\ html.saved
  /\ \E j, k \in DOMAIN html.edge_line :
       /\ Edges(nx_graph)[j].d.TIME = 0
       /\ Edges(nx_graph)[k].d.TIME = 1
       /\ html.edge_line[j] # html.edge_line[k]

\* C10: the five lists attached to the edge data source have one entry per
\* edge, in edge order, entry k holding the attributes of edge k; and the
\* node colour list has one entry per node, in node order.
C10_ListsFollowEdgeOrder ==
  Formatted =>
    LET E == Edges(nx_graph)
    IN /\ \A f \in DOMAIN edge_data : Len(edge_data[f]) = Len(E)
       /\ \A k \in DOMAIN E :
            /\ edge_data.rmsisdn[k] = E[k].d.PIN_RESET_MSISDN
            /\ edge_data.rname[k] = E[k].d.DEBIT_PARTY
            /\ edge_data.crmsisdn[k] = E[k].d.CREDIT_PARTY
            /\ edge_data.crname[k] = E[k].d.CREDIT_PARTY_SHORTCODE_MSISDN
            /\ edge_data.batime[k] = E[k].d.TIME
            /\ {edge_data.rmsisdn[k], edge_data.crmsisdn[k]} = {E[k].u, E[k].v}
       /\ Len(node_colors) = Len(nx_graph.node)
       /\ \A k \in DOMAIN node_colors :
            node_colors[k] = 0 <=> Len(nx_graph.node[k]) < 12

\* C10 witness: data sources filled for two edges that differ in every
\* listed attribute, and for nodes of more than one colour.
C10_Witness ==
  /\ pc = "done"
  /\ Len(Edges(nx_graph)) = 2
  /\ \A f \in DOMAIN edge_data : edge_data[f][1] # edge_data[f][2]
  /\ \E j, k \in DOMAIN node_colors : node_colors[j] # node_colors[k]

====
